---- MODULE Spec2Model ----
(***************************************************************************)
(* Checkout / payment routes of the storefront backend                     *)
(* (src/server/routes/payment.js): POST /payment/create-order,             *)
(* POST /payment/verify and POST /payment/manual running as concurrent     *)
(* request handlers against a shared document store (products, orders,     *)
(* site settings) and the payment provider.                                *)
(*                                                                         *)
(* A handler is split at its awaits on the store: everything between two   *)
(* awaits runs without interleaving (single-threaded event loop), every    *)
(* await is a point where another request may run.                         *)
(*                                                                         *)
(* The source holds two more copies of the routes (src/unnamed/part_000,   *)
(* src/unnamed/part_001); their handlers are modelled next to payment.js   *)
(* and served the same request side by side.                               *)
(***************************************************************************)
EXTENDS Integers, Sequences, FiniteSets, TLC

\* ------------------------------------------------------------------ bounds
MaxStock == 2        \* initial quantities range over 0..MaxStock
MaxItems == 2        \* items per request when one request runs alone
MaxConcItems == 1    \* items per request when two requests interleave

\* ------------------------------------------------------- program constants
PinMin == 4          \* /^\d{4,8}$/
PinMax == 8

\* ---------------------------------------------------------------- universe
Req == {"r1", "r2"}                    \* request handlers in flight
ProductIds == {"P1", "P2"}             \* stored products; "PX" resolves to none
Digits == {"0", "1", "2", "3", "4", "5", "6", "7", "8", "9"}

\* crypto.createHmac('sha256', key).update(msg).digest('hex'): an injective
\* function of (key, msg); the message is the concatenation the code builds.
HMAC(key, msg) == <<"hmac-sha256", key, msg>>

\* a signed message that leaves the order id out
SigMessagePaymentOnly(oid, pid) == "|" \o pid

\* razorpayOrderId + '|' + razorpayPaymentId
SigMessage(oid, pid) == oid \o "|" \o pid

\* String.prototype.trim over the strings of the model
Trim(s) ==
  CASE s = " " -> ""
    [] s = " t1 " -> "t1"
    [] OTHER -> s

\* a pincode test that looks at the length only
PinOkLengthOnly(p) == Len(p) >= PinMin /\ Len(p) <= PinMax

\* /^\d{4,8}$/.test(String(pincode)); a pincode is its sequence of characters
PinOk(p) ==
  /\ Len(p) >= PinMin
  /\ Len(p) <= PinMax
  /\ \A k \in 1..Len(p) : p[k] \in Digits

\* a default quantity of 0 for an item that carries none
RequestedQtyDefaultZero(item) ==
  IF item.qty = <<>> \/ item.qty[1] = 0 THEN 0 ELSE item.qty[1]

\* Number(item.qty || 1): qty is <<>> when the item carries none, else <<n>>
RequestedQty(item) ==
  IF item.qty = <<>> \/ item.qty[1] = 0 THEN 1 ELSE item.qty[1]

VARIABLES
  config,      \* process.env and the SiteSetting record: gateway credentials
  products,    \* Product collection: id -> document
  stock0,      \* history: the Product collection of the initial state
  orders,      \* Order collection, in order of insertion
  pc,          \* per request: position of the handler
  body,        \* per request: req.body (items are read as the loop reaches them)
  items,       \* per request: the items the loop has read so far
  log,         \* history, per request: what the loop did with each item
  pend,        \* per request: the modified document path product.save() writes
  resp,        \* per request: the response sent
  remote,      \* per request: its call of rzp.orders.create and what came of it
  side         \* per copy of the routes: its answer to the request served side by side

vars == <<config, products, stock0, orders, pc, body, items, log, pend, resp, remote, side>>

\* ------------------------------------------------------------ credentials
\* JavaScript's a || b on strings ("" is the absent / falsy value)
OrElse(a, b) == IF a # "" THEN a ELSE b

\* getRazorpayInstance resolves (does not throw) for this configuration
RazorpayConfigured(cfg) ==
  /\ OrElse(cfg.envKeyId, cfg.dbKeyId) # ""
  /\ OrElse(cfg.envKeySecret, cfg.dbKeySecret) # ""

\* the secret /verify signs with: process.env.RAZORPAY_KEY_SECRET
VerifyKeySecret(cfg) == cfg.envKeySecret

\* /verify, "Get Razorpay credentials": the try block passes
VerifyCredentialsOk(cfg, settingsOk) ==
  /\ settingsOk
  /\ RazorpayConfigured(cfg)
  /\ VerifyKeySecret(cfg) # ""

Configs ==
  { [envKeyId |-> "rzp_env", envKeySecret |-> "envS", dbKeyId |-> "", dbKeySecret |-> ""],
    [envKeyId |-> "rzp_env", envKeySecret |-> "envS", dbKeyId |-> "rzp_db", dbKeySecret |-> "dbS"],
    [envKeyId |-> "", envKeySecret |-> "", dbKeyId |-> "rzp_db", dbKeySecret |-> "dbS"],
    [envKeyId |-> "", envKeySecret |-> "", dbKeyId |-> "", dbKeySecret |-> ""] }

\* --------------------------------------------------------------- requests
\* !x || typeof x !== 'string' || !x.trim()   ("" stands for missing / non-string)
Blank(s) == s = "" \/ Trim(s) = ""

GeneratedSignature(cfg, b) == HMAC(VerifyKeySecret(cfg), SigMessage(b.oid, b.pid))

\* a signature check that only looks at the presence of a signature
SignatureValidPresenceOnly(cfg, b) == b.sig # <<>>

\* generatedSignature !== razorpaySignature is false
SignatureValid(cfg, b) == GeneratedSignature(cfg, b) = b.sig

NoSig == <<>>
Signatures ==
  { NoSig,
    HMAC("envS", SigMessage("o1", "p1")),
    HMAC("envS", SigMessage("o2", "p1")),
    HMAC("dbS", SigMessage("o1", "p1")) }

Pin3 == <<"1", "2", "3">>
Pin4 == <<"1", "2", "3", "4">>
Pin8 == <<"1", "2", "3", "4", "5", "6", "7", "8">>
Pin9 == <<"1", "2", "3", "4", "5", "6", "7", "8", "9">>
PinAlpha == <<"1", "2", "a", "4">>
NoPin == <<>>

\* shipping fields of a body: one valid address and its one-field variations
Shippings ==
  { [city |-> "Pune", state |-> "MH", pincode |-> Pin4],
    [city |-> "Pune", state |-> "MH", pincode |-> Pin8],
    [city |-> "", state |-> "MH", pincode |-> Pin4],
    [city |-> "Pune", state |-> "", pincode |-> Pin4],
    [city |-> "Pune", state |-> "MH", pincode |-> NoPin],
    [city |-> "Pune", state |-> "MH", pincode |-> Pin3],
    [city |-> "Pune", state |-> "MH", pincode |-> Pin9],
    [city |-> "Pune", state |-> "MH", pincode |-> PinAlpha] }

ConcShippings ==
  { [city |-> "Pune", state |-> "MH", pincode |-> Pin4],
    [city |-> "Pune", state |-> "MH", pincode |-> Pin3] }

\* items of a body: absent, not an array, or an array of n items
ItemShapes(n) ==
  { [shape |-> "absent", nItems |-> 0], [shape |-> "notArray", nItems |-> 0] }
    \cup { [shape |-> "array", nItems |-> k] : k \in 0..n }

MkBody(kind, oid, pid, sig, txn, ship, its) ==
  [kind |-> kind, oid |-> oid, pid |-> pid, sig |-> sig, txn |-> txn,
   city |-> ship.city, state |-> ship.state, pincode |-> ship.pincode,
   shape |-> its.shape, nItems |-> its.nItems, amount |-> <<>>]

NoBody == MkBody("none", "", "", NoSig, "", [city |-> "", state |-> "", pincode |-> NoPin],
                 [shape |-> "absent", nItems |-> 0])

VerifyBodies(oids, pids, sigs, ships, n) ==
  { MkBody("verify", o, p, s, "", sh, it) :
      o \in oids, p \in pids, s \in sigs, sh \in ships, it \in ItemShapes(n) }

ManualBodies(txns, ships, n) ==
  { MkBody("manual", "", "", NoSig, t, sh, it) :
      t \in txns, sh \in ships, it \in ItemShapes(n) }

\* amounts a client can send to /create-order, in quarters of the minor currency
\* unit (<<6>> is 1.5); <<>> is an amount parseFloat turns into NaN or Infinity
CreateAmounts == { <<>> } \cup { <<a>> : a \in {-4, 0, 1, 2, 4, 6, 8} }

CreateBodies(amounts, shapes) ==
  { [MkBody("create", "", "", <<>>, "", [city |-> "", state |-> "", pincode |-> <<>>], it)
       EXCEPT !.amount = a] : a \in amounts, it \in shapes }

\* an item test that forgets items.length > 0
HasItemsAnyArray(b) == b.shape = "array"

\* items && Array.isArray(items) && items.length > 0
HasItems(b) == b.shape = "array" /\ b.nItems > 0

\* ------------------------------------------------------------------ items
Item(p, s, q) == [productId |-> p, size |-> s, qty |-> q]

\* line items a client can send: flat and per-size products, with and without
\* size and qty, a product id that resolves to nothing, and no product id
AllItems ==
  { Item("P1", "", q) : q \in { <<n>> : n \in (-1)..(MaxStock + 1) } \cup { <<>> } }
    \cup { Item("P1", "S", <<1>>) }
    \cup { Item("P2", "S", q) : q \in { <<>>, <<1>>, <<2>> } }
    \cup { Item("P2", "M", <<1>>), Item("P2", "", <<1>>), Item("P2", "L", <<1>>) }
    \cup { Item("PX", "", <<1>>), Item("", "", <<1>>) }

ConcItems ==
  { Item("P1", "", <<1>>), Item("P1", "", <<2>>), Item("P2", "S", <<1>>) }

\* ---------------------------------------------------------------- responses
Response(status, msg) ==
  [status |-> status, msg |-> msg, itemId |-> "", availableQty |-> <<>>,
   order |-> 0, fault |-> FALSE, mail |-> "none",
   orderId |-> "", amount |-> <<>>, keyId |-> ""]

NoResp == Response(0, "")

\* -------------------------------------------------------------- inventory
\* a findIndex whose predicate holds of every entry
FindIndexFirstEntry(inv, code) == IF Len(inv) > 0 THEN 1 ELSE 0

\* product.sizeInventory.findIndex(s => s.code === item.size); 0 stands for -1
FindIndex(inv, code) ==
  IF \E k \in 1..Len(inv) : inv[k].code = code
    THEN CHOOSE k \in 1..Len(inv) :
           /\ inv[k].code = code
           /\ \A j \in 1..(k - 1) : inv[j].code # code
    ELSE 0

\* a 409 that reports the requested quantity as the available one
ShortReportsRequested(current, want, idx) ==
  [out |-> "short", idx |-> idx, avail |-> <<want>>, val |-> 0, dec |-> 0]

\* res.status(409).json({..., availableQty: currentQty}): nothing is modified
Short(current, want, idx) ==
  [out |-> "short", idx |-> idx, avail |-> <<current>>, val |-> 0, dec |-> 0]

\* the copy of the document is modified: qty -= requestedQty
Decrement(current, want, idx) ==
  [out |-> "dec", idx |-> idx, avail |-> <<current>>, val |-> current - want, dec |-> want]

\* a loop that takes the per-size branch whenever the item names a size
DecideBySizeNamed(item, found, doc) ==
  LET want == RequestedQty(item)
      none == [out |-> "nocheck", idx |-> 0, avail |-> <<>>, val |-> 0, dec |-> 0]
  IN
  IF item.productId = "" THEN [none EXCEPT !.out = "noref"]
  ELSE IF ~found THEN [none EXCEPT !.out = "noproduct"]
  ELSE IF item.size # "" THEN
    LET sizeIdx == FindIndex(doc.sizeInventory, item.size) IN
    IF sizeIdx = 0 THEN none
    ELSE LET currentQty == doc.sizeInventory[sizeIdx].qty IN
         IF currentQty < want
           THEN Short(currentQty, want, sizeIdx)
           ELSE Decrement(currentQty, want, sizeIdx)
  ELSE IF ~doc.trackInventoryBySize THEN
    LET currentStock == doc.stock IN
    IF currentStock < want
      THEN Short(currentStock, want, 0)
      ELSE Decrement(currentStock, want, 0)
  ELSE none

\* a loop that answers 409 for an item whose product is not stored
DecideUnknownProductFails(item, found, doc) ==
  LET want == RequestedQty(item)
      none == [out |-> "nocheck", idx |-> 0, avail |-> <<>>, val |-> 0, dec |-> 0]
  IN
  IF item.productId = "" THEN [none EXCEPT !.out = "noref"]
  ELSE IF ~found THEN Short(0, want, 0)
  ELSE IF doc.trackInventoryBySize /\ item.size # "" THEN
    LET sizeIdx == FindIndex(doc.sizeInventory, item.size) IN
    IF sizeIdx = 0 THEN none
    ELSE LET currentQty == doc.sizeInventory[sizeIdx].qty IN
         IF currentQty < want
           THEN Short(currentQty, want, sizeIdx)
           ELSE Decrement(currentQty, want, sizeIdx)
  ELSE IF ~doc.trackInventoryBySize THEN
    LET currentStock == doc.stock IN
    IF currentStock < want
      THEN Short(currentStock, want, 0)
      ELSE Decrement(currentStock, want, 0)
  ELSE none

\* What one pass of the inventory loop decides for `item`, given the document
\* Product.findById returned (`found` is FALSE when it returned null):
\*   out    "noref"     the item has neither id nor productId
\*          "noproduct" no such product
\*          "nocheck"   neither branch applies, or the size is not in sizeInventory
\*          "short"     409, with avail the quantity read
\*          "dec"       the document is modified (idx 0: stock; idx k: sizeInventory[k].qty)
Decide(item, found, doc) ==
  LET want == RequestedQty(item)
      none == [out |-> "nocheck", idx |-> 0, avail |-> <<>>, val |-> 0, dec |-> 0]
  IN
  IF item.productId = "" THEN [none EXCEPT !.out = "noref"]
  ELSE IF ~found THEN [none EXCEPT !.out = "noproduct"]
  ELSE IF doc.trackInventoryBySize /\ item.size # "" THEN
    LET sizeIdx == FindIndex(doc.sizeInventory, item.size) IN
    IF sizeIdx = 0 THEN none
    ELSE LET currentQty == doc.sizeInventory[sizeIdx].qty IN
         IF currentQty < want
           THEN Short(currentQty, want, sizeIdx)
           ELSE Decrement(currentQty, want, sizeIdx)
  ELSE IF ~doc.trackInventoryBySize THEN
    LET currentStock == doc.stock IN
    IF currentStock < want
      THEN Short(currentStock, want, 0)
      ELSE Decrement(currentStock, want, 0)
  ELSE none

\* a save that applies the decrement to the stored value ($inc) instead of
\* writing the value the request computed
SaveProductInc(db, w) ==
  IF w.idx = 0
    THEN [db EXCEPT ![w.pid].stock = @ - w.dec]
    ELSE [db EXCEPT ![w.pid].sizeInventory[w.idx].qty = @ - w.dec]

\* product.save() after the loop modified one path of its copy of the document:
\* the stored document gets the value of that path as computed by the request
SaveProduct(db, w) ==
  IF w.idx = 0
    THEN [db EXCEPT ![w.pid].stock = w.val]
    ELSE [db EXCEPT ![w.pid].sizeInventory[w.idx].qty = w.val]

\* -------------------------------------------------------------------- orders
UserOf(r) == IF r = "r1" THEN "u1" ELSE "u2"

\* new Order({...}) of /verify
PaidOrder(r, b, its) ==
  [req |-> r, userId |-> UserOf(r), city |-> b.city, state |-> b.state,
   pincode |-> b.pincode, paymentMethod |-> "Razorpay", items |-> its,
   status |-> "paid", upi |-> <<>>]

\* a /manual that stores the transaction id as submitted
PendingOrderUntrimmed(r, b, its) ==
  [req |-> r, userId |-> UserOf(r), city |-> b.city, state |-> b.state,
   pincode |-> b.pincode, paymentMethod |-> "UPI", items |-> its,
   status |-> "pending", upi |-> <<[txnId |-> b.txn, payerName |-> UserOf(r)]>>]

\* new Order({...}) of /manual
PendingOrder(r, b, its) ==
  [req |-> r, userId |-> UserOf(r), city |-> b.city, state |-> b.state,
   pincode |-> b.pincode, paymentMethod |-> "UPI", items |-> its,
   status |-> "pending", upi |-> <<[txnId |-> Trim(b.txn), payerName |-> UserOf(r)]>>]

\* an Order Record that is "paid" whichever route creates it
NewOrderAlwaysPaid(r, b, its) == PaidOrder(r, b, its)

\* the Order Record of the route that handles the request
NewOrder(r, b, its) ==
  IF b.kind = "verify" THEN PaidOrder(r, b, its) ELSE PendingOrder(r, b, its)

\* ------------------------------------------------------------------- state
InitialProducts ==
  { [p \in ProductIds |->
       IF p = "P1"
         THEN [trackInventoryBySize |-> FALSE, stock |-> a,
               sizeInventory |-> <<[code |-> "S", qty |-> 1]>>]
         ELSE [trackInventoryBySize |-> TRUE, stock |-> 1,
               sizeInventory |-> <<[code |-> "S", qty |-> b], [code |-> "M", qty |-> 1]>>]] :
      a \in 0..MaxStock, b \in 0..MaxStock }

\* the copies of the payment routes the source holds
Copies == {"payment", "part_000", "part_001"}

NoSide == [c \in Copies |-> NoResp]

Init ==
  /\ config \in Configs
  /\ products \in InitialProducts
  /\ stock0 = products
  /\ orders = <<>>
  /\ pc = [r \in Req |-> "idle"]
  /\ body = [r \in Req |-> NoBody]
  /\ items = [r \in Req |-> <<>>]
  /\ log = [r \in Req |-> <<>>]
  /\ pend = [r \in Req |-> <<>>]
  /\ resp = [r \in Req |-> NoResp]
  /\ remote = [r \in Req |-> <<>>]
  /\ side = NoSide

\* res.status(..).json(..): the handler ends
Reply(r, response) ==
  /\ pc' = [pc EXCEPT ![r] = "done"]
  /\ resp' = [resp EXCEPT ![r] = response]

\* the handler goes on to its first await on the Product / Order collection
Proceed(r, b) ==
  /\ pc' = [pc EXCEPT ![r] = "find"]
  /\ UNCHANGED resp

\* an amount test that lets zero through
AmountValidNonNegative(a) == a # <<>> /\ a[1] >= 0

\* Number.isFinite(parsedAmount) && parsedAmount > 0
AmountValid(a) == a # <<>> /\ a[1] > 0

\* an integer conversion that truncates
AmountInPaiseTruncated(a) == 4 * (a[1] \div 4)

\* Math.round(parsedAmount): the nearest integer, halves upwards (in quarters)
AmountInPaise(a) == 4 * ((a[1] + 2) \div 4)

\* the response of /create-order up to the provider call; status 0: none yet
CreateGate(cfg, b, settingsOk) ==
  IF ~AmountValid(b.amount) THEN Response(400, "Invalid amount provided")
  ELSE IF ~(b.shape = "array") \/ b.nItems = 0 THEN Response(400, "No items in order")
  ELSE IF ~(settingsOk /\ RazorpayConfigured(cfg))
    THEN [Response(500, "Razorpay is not properly configured on the server")
            EXCEPT !.fault = ~settingsOk]
  ELSE IF AmountInPaise(b.amount) <= 0
    THEN Response(400, "Amount must be greater than zero")
  ELSE NoResp

\* what rzp.orders.create can come to: an order with an id, a response without
\* an id, a rejected promise
ProviderOutcomes == {"created", "noId", "threw"}

\* the id the provider gives the order it creates for request r
RemoteId(r) == "order_" \o r

\* a handler that answers 500 to a provider response without an id
CreateAnswerMissingId500(cfg, call) ==
  IF call.outcome = "threw"
    THEN Response(502, "Failed to create order with payment provider")
  ELSE IF call.outcome = "noId"
    THEN Response(500, "Failed to create Razorpay order")
  ELSE IF cfg.envKeyId = ""
    THEN Response(500, "Payment gateway configuration incomplete")
  ELSE [Response(200, "") EXCEPT !.orderId = call.id, !.amount = <<call.amount>>,
                                 !.keyId = cfg.envKeyId]

\* the response of /create-order once rzp.orders.create has settled
CreateAnswer(cfg, call) ==
  IF call.outcome = "threw"
    THEN Response(502, "Failed to create order with payment provider")
  ELSE IF call.outcome = "noId"
    THEN Response(502, "Invalid response from payment provider")
  ELSE IF cfg.envKeyId = ""
    THEN Response(500, "Payment gateway configuration incomplete")
  ELSE [Response(200, "") EXCEPT !.orderId = call.id, !.amount = <<call.amount>>,
                                 !.keyId = cfg.envKeyId]

\* POST /payment/create-order arrives with body b: amount and items are validated,
\* the credentials resolved, the amount rounded, and rzp.orders.create is called
CreateOrderStart(r, bodies) ==
  /\ pc[r] = "idle"
  /\ \E b \in bodies, settingsOk \in BOOLEAN :
       LET g == CreateGate(config, b, settingsOk) IN
       /\ body' = [body EXCEPT ![r] = b]
       /\ IF g.status = 0
            THEN /\ pc' = [pc EXCEPT ![r] = "provider"]
                 /\ remote' = [remote EXCEPT ![r] =
                       <<[amount |-> AmountInPaise(b.amount), outcome |-> "pending",
                          id |-> ""]>>]
                 /\ UNCHANGED resp
            ELSE Reply(r, g) /\ UNCHANGED remote
  /\ UNCHANGED <<config, side, products, stock0, orders, items, log, pend>>

\* a handler that stores an Order Record for the order the provider created
ProviderSettlesPersists(r) ==
  /\ pc[r] = "provider"
  /\ \E outcome \in ProviderOutcomes :
       LET call == [remote[r][1] EXCEPT !.outcome = outcome,
                      !.id = IF outcome = "created" THEN RemoteId(r) ELSE ""]
       IN /\ remote' = [remote EXCEPT ![r] = <<call>>]
          /\ Reply(r, CreateAnswer(config, call))
          /\ orders' = IF outcome = "created"
                         THEN Append(orders, PendingOrder(r, body[r], <<>>))
                         ELSE orders
  /\ UNCHANGED <<config, side, products, stock0, body, items, log, pend>>

\* rzp.orders.create settles and /create-order answers
ProviderSettles(r) ==
  /\ pc[r] = "provider"
  /\ \E outcome \in ProviderOutcomes :
       LET call == [remote[r][1] EXCEPT !.outcome = outcome,
                      !.id = IF outcome = "created" THEN RemoteId(r) ELSE ""]
       IN /\ remote' = [remote EXCEPT ![r] = <<call>>]
          /\ Reply(r, CreateAnswer(config, call))
  /\ UNCHANGED <<config, side, products, stock0, orders, body, items, log, pend>>

\* a /verify that validates the shipping fields before the signature
VerifyGateShippingFirst(cfg, b, settingsOk) ==
  IF Blank(b.oid) THEN Response(400, "Missing or invalid Razorpay order ID")
  ELSE IF Blank(b.pid) THEN Response(400, "Missing or invalid Razorpay payment ID")
  ELSE IF b.sig = <<>> THEN Response(400, "Missing or invalid payment signature")
  ELSE IF ~VerifyCredentialsOk(cfg, settingsOk)
    THEN [Response(500, "Payment verification system not configured")
            EXCEPT !.fault = ~settingsOk]
  ELSE IF HasItems(b) /\ (b.city = "" \/ b.state = "" \/ b.pincode = <<>>)
    THEN Response(400, "City, state, and pincode are required")
  ELSE IF HasItems(b) /\ ~PinOk(b.pincode) THEN Response(400, "Invalid pincode")
  ELSE IF ~SignatureValid(cfg, b) THEN Response(400, "Invalid payment signature")
  ELSE IF ~HasItems(b) THEN Response(200, "Payment verified successfully")
  ELSE NoResp

\* the response of /verify up to the inventory loop; status 0: no response yet
VerifyGate(cfg, b, settingsOk) ==
  IF Blank(b.oid) THEN Response(400, "Missing or invalid Razorpay order ID")
  ELSE IF Blank(b.pid) THEN Response(400, "Missing or invalid Razorpay payment ID")
  ELSE IF b.sig = NoSig THEN Response(400, "Missing or invalid payment signature")
  ELSE IF ~VerifyCredentialsOk(cfg, settingsOk)
    THEN [Response(500, "Payment verification system not configured")
            EXCEPT !.fault = ~settingsOk]
  ELSE IF ~SignatureValid(cfg, b) THEN Response(400, "Invalid payment signature")
  ELSE IF ~HasItems(b) THEN Response(200, "Payment verified successfully")
  ELSE IF b.city = "" \/ b.state = "" \/ b.pincode = NoPin
    THEN Response(400, "City, state, and pincode are required")
  ELSE IF ~PinOk(b.pincode) THEN Response(400, "Invalid pincode")
  ELSE NoResp

\* the response of /manual up to the inventory loop; status 0: no response yet
ManualGate(b) ==
  IF Blank(b.txn) THEN Response(400, "Transaction ID is required")
  ELSE IF ~(b.shape = "array") \/ b.nItems = 0 THEN Response(400, "No items in order")
  ELSE IF b.city = "" \/ b.state = "" \/ b.pincode = NoPin
    THEN Response(400, "City, state, and pincode are required")
  ELSE IF ~PinOk(b.pincode) THEN Response(400, "Invalid pincode")
  ELSE NoResp

\* POST /payment/verify arrives with body b: identifiers, credentials, signature,
\* shipping fields
VerifyStart(r, bodies) ==
  /\ pc[r] = "idle"
  /\ \E b \in bodies, settingsOk \in BOOLEAN :
       LET g == VerifyGate(config, b, settingsOk) IN
       /\ body' = [body EXCEPT ![r] = b]
       /\ IF g.status = 0 THEN Proceed(r, b) ELSE Reply(r, g)
  /\ UNCHANGED <<config, side, remote, products, stock0, orders, items, log, pend>>

\* POST /payment/manual arrives with body b: transaction id, items, shipping fields
ManualStart(r, bodies) ==
  /\ pc[r] = "idle"
  /\ \E b \in bodies :
       LET g == ManualGate(b) IN
       /\ body' = [body EXCEPT ![r] = b]
       /\ IF g.status = 0 THEN Proceed(r, b) ELSE Reply(r, g)
  /\ UNCHANGED <<config, side, remote, products, stock0, orders, items, log, pend>>

\* where the loop goes after its k-th item
AfterItem(r, k) == IF k = body[r].nItems THEN "order" ELSE "find"

\* a loop that compares every item against the documents as they were when the
\* request arrived
FindProductInitialRead(r, itemDom) ==
  /\ pc[r] = "find"
  /\ \E item \in itemDom :
       LET found == item.productId \in ProductIds
           doc == IF found THEN stock0[item.productId] ELSE stock0["P1"]
           d == Decide(item, found, doc)
           k == Len(items[r]) + 1
       IN
       /\ items' = [items EXCEPT ![r] = Append(@, item)]
       /\ log' = [log EXCEPT ![r] = Append(@,
             [out |-> d.out, pid |-> item.productId, idx |-> d.idx, avail |-> d.avail,
              dec |-> d.dec, saved |-> FALSE])]
       /\ CASE d.out = "short" ->
                 /\ Reply(r, [Response(409, "Insufficient stock")
                                EXCEPT !.itemId = item.productId, !.availableQty = d.avail])
                 /\ UNCHANGED pend
            [] d.out = "dec" ->
                 /\ pc' = [pc EXCEPT ![r] = "save"]
                 /\ pend' = [pend EXCEPT ![r] =
                       <<[pid |-> item.productId, idx |-> d.idx, val |-> d.val, dec |-> d.dec]>>]
                 /\ UNCHANGED resp
            [] OTHER ->
                 /\ pc' = [pc EXCEPT ![r] = AfterItem(r, k)]
                 /\ UNCHANGED <<pend, resp>>
  /\ UNCHANGED <<config, side, remote, products, stock0, orders, body>>

\* One pass of "for (const item of items)": Product.findById resolves, the item is
\* compared against the document read, and either the request ends with 409, or
\* the item is passed over, or the document is modified and product.save() is issued
FindProduct(r, itemDom) ==
  /\ pc[r] = "find"
  /\ \E item \in itemDom :
       LET found == item.productId \in ProductIds
           doc == IF found THEN products[item.productId] ELSE products["P1"]
           d == Decide(item, found, doc)
           k == Len(items[r]) + 1
       IN
       /\ items' = [items EXCEPT ![r] = Append(@, item)]
       /\ log' = [log EXCEPT ![r] = Append(@,
             [out |-> d.out, pid |-> item.productId, idx |-> d.idx, avail |-> d.avail,
              dec |-> d.dec, saved |-> FALSE])]
       /\ CASE d.out = "short" ->
                 /\ Reply(r, [Response(409, "Insufficient stock")
                                EXCEPT !.itemId = item.productId, !.availableQty = d.avail])
                 /\ UNCHANGED pend
            [] d.out = "dec" ->
                 /\ pc' = [pc EXCEPT ![r] = "save"]
                 /\ pend' = [pend EXCEPT ![r] =
                       <<[pid |-> item.productId, idx |-> d.idx, val |-> d.val, dec |-> d.dec]>>]
                 /\ UNCHANGED resp
            [] OTHER ->
                 /\ pc' = [pc EXCEPT ![r] = AfterItem(r, k)]
                 /\ UNCHANGED <<pend, resp>>
  /\ UNCHANGED <<config, side, remote, products, stock0, orders, body>>

\* product.save() resolves: the modified path reaches the store
SaveItem(r) ==
  /\ pc[r] = "save"
  /\ products' = SaveProduct(products, pend[r][1])
  /\ pend' = [pend EXCEPT ![r] = <<>>]
  /\ log' = [log EXCEPT ![r][Len(log[r])].saved = TRUE]
  /\ pc' = [pc EXCEPT ![r] = AfterItem(r, Len(items[r]))]
  /\ UNCHANGED <<config, side, remote, stock0, orders, body, items, resp>>

\* order.save() resolves: the Order Record is persisted
SaveOrder(r) ==
  /\ pc[r] = "order"
  /\ orders' = Append(orders, NewOrder(r, body[r], items[r]))
  /\ pc' = [pc EXCEPT ![r] = "user"]
  /\ UNCHANGED <<config, side, remote, products, stock0, body, items, log, pend, resp>>

\* the response after order.save(): {ok: true, data: order ...}
OrderResponse(b, n, mail) ==
  [Response(200, IF b.kind = "verify" THEN "Payment verified successfully"
                  ELSE "Order created successfully. Your payment is pending verification.")
     EXCEPT !.order = n, !.mail = mail]

\* User.findById resolves: with an address on the user the handler calls
\* sendOrderConfirmationEmail and awaits it, without one it answers
FindUser(r) ==
  /\ pc[r] = "user"
  /\ \E hasEmail \in BOOLEAN :
       IF hasEmail
         THEN pc' = [pc EXCEPT ![r] = "email"] /\ UNCHANGED resp
         ELSE Reply(r, OrderResponse(body[r], Len(orders), "noEmail"))
  /\ UNCHANGED <<config, side, remote, products, stock0, orders, body, items, log, pend>>

\* sendOrderConfirmationEmail settles (a rejection is caught and logged) and the
\* response is sent
EmailSettles(r) ==
  /\ pc[r] = "email"
  /\ \E mail \in {"sent", "failed"} :
       Reply(r, OrderResponse(body[r], Len(orders), mail))
  /\ UNCHANGED <<config, side, remote, products, stock0, orders, body, items, log, pend>>

\* a rejected store operation that no catch turns into a response
StoreFailsUnanswered(r) ==
  /\ pc[r] \in {"find", "save", "order", "user"}
  /\ pc' = [pc EXCEPT ![r] = "crashed"]
  /\ pend' = [pend EXCEPT ![r] = <<>>]
  /\ UNCHANGED <<config, side, remote, products, stock0, orders, body, items, log, resp>>

\* the store operation the handler awaits rejects: the outer catch answers 500
StoreFails(r) ==
  /\ pc[r] \in {"find", "save", "order", "user"}
  /\ Reply(r, [Response(500, "error.message") EXCEPT !.fault = TRUE])
  /\ pend' = [pend EXCEPT ![r] = <<>>]
  /\ UNCHANGED <<config, side, remote, products, stock0, orders, body, items, log>>

\* ------------------------------------------------------------ route copies
\* part_000, getRazorpayInstance: the settings record alone
RazorpayConfigured000(cfg) == cfg.dbKeyId # "" /\ cfg.dbKeySecret # ""

\* part_000 and part_001: !(!amount || amount <= 0), for an amount that is a
\* number or is missing from the body (<<>>)
AmountTruthyPositive(a) == a # <<>> /\ a[1] > 0

\* part_000, POST /create-order, the whole handler: no inner try around the
\* credentials or the provider call, no test of the provider's response (a
\* response that is null throws, one without an id is answered with 200)
CreateOrder000(cfg, b, settingsOk, outcome, isNull, id) ==
  IF ~AmountTruthyPositive(b.amount) THEN Response(400, "Invalid amount")
  ELSE IF ~(b.shape = "array") \/ b.nItems = 0 THEN Response(400, "No items in order")
  ELSE IF ~(settingsOk /\ RazorpayConfigured000(cfg))
    THEN [Response(500, "error.message") EXCEPT !.fault = ~settingsOk]
  ELSE IF outcome = "threw" \/ (outcome = "noId" /\ isNull)
    THEN Response(500, "error.message")
  ELSE [Response(200, "") EXCEPT !.orderId = id]

\* part_001, POST /create-order, the whole handler: no inner try around the
\* credentials or the provider call, 500 for a response without an id
CreateOrder001(cfg, b, settingsOk, outcome, id) ==
  IF ~AmountTruthyPositive(b.amount) THEN Response(400, "Invalid amount")
  ELSE IF ~(b.shape = "array") \/ b.nItems = 0 THEN Response(400, "No items in order")
  ELSE IF ~(settingsOk /\ RazorpayConfigured(cfg))
    THEN [Response(500, "error.message") EXCEPT !.fault = ~settingsOk]
  ELSE IF outcome = "threw" THEN Response(500, "error.message")
  ELSE IF outcome = "noId" THEN Response(500, "Failed to create Razorpay order")
  ELSE IF cfg.envKeyId = ""
    THEN Response(500, "Razorpay is not properly configured on the server")
  ELSE [Response(200, "") EXCEPT !.orderId = id,
                                 !.amount = <<AmountInPaise(b.amount)>>,
                                 !.keyId = cfg.envKeyId]

\* part_000 and part_001, /verify: the one test of the three identifiers
\* (!x: no trim, no typeof)
VerifyDetailsMissing(b) == b.oid = "" \/ b.pid = "" \/ b.sig = NoSig

\* part_000 and part_001, /verify from the items test on: the text of payment.js
VerifyAfterSignature(b) ==
  IF ~HasItems(b) THEN Response(200, "Payment verified successfully")
  ELSE IF b.city = "" \/ b.state = "" \/ b.pincode = NoPin
    THEN Response(400, "City, state, and pincode are required")
  ELSE IF ~PinOk(b.pincode) THEN Response(400, "Invalid pincode")
  ELSE NoResp

\* part_000, the response of /verify up to the inventory loop: the secret is
\* read from the settings record
VerifyGate000(cfg, b, settingsOk) ==
  IF VerifyDetailsMissing(b) THEN Response(400, "Missing payment verification details")
  ELSE IF ~settingsOk THEN [Response(500, "error.message") EXCEPT !.fault = TRUE]
  ELSE IF cfg.dbKeySecret = "" THEN Response(500, "Razorpay is not configured")
  ELSE IF HMAC(cfg.dbKeySecret, SigMessage(b.oid, b.pid)) # b.sig
    THEN Response(400, "Invalid payment signature")
  ELSE VerifyAfterSignature(b)

\* part_001, the response of /verify up to the inventory loop: the secret is
\* process.env.RAZORPAY_KEY_SECRET and the settings record is not read
VerifyGate001(cfg, b) ==
  IF VerifyDetailsMissing(b) THEN Response(400, "Missing payment verification details")
  ELSE IF cfg.envKeySecret = "" THEN Response(500, "Razorpay is not configured on the server")
  ELSE IF HMAC(cfg.envKeySecret, SigMessage(b.oid, b.pid)) # b.sig
    THEN Response(400, "Invalid payment signature")
  ELSE VerifyAfterSignature(b)

\* one create-order request given to the three copies, each with its own call of
\* rzp.orders.create, which comes to the same for all of them
SideCreateOrder(r, bodies) ==
  /\ pc[r] = "idle"
  /\ \E b \in bodies, settingsOk \in BOOLEAN, outcome \in ProviderOutcomes,
        isNull \in BOOLEAN :
       LET g == CreateGate(config, b, settingsOk)
           id == IF outcome = "created" THEN RemoteId(r) ELSE ""
           call == [amount |-> AmountInPaise(b.amount), outcome |-> outcome, id |-> id]
           answer == IF g.status = 0 THEN CreateAnswer(config, call) ELSE g
       IN /\ body' = [body EXCEPT ![r] = b]
          /\ remote' = [remote EXCEPT ![r] = IF g.status = 0 THEN <<call>> ELSE <<>>]
          /\ Reply(r, answer)
          /\ side' = [c \in Copies |->
                        IF c = "payment" THEN answer
                        ELSE IF c = "part_000"
                          THEN CreateOrder000(config, b, settingsOk, outcome, isNull, id)
                        ELSE CreateOrder001(config, b, settingsOk, outcome, id)]
  /\ UNCHANGED <<config, products, stock0, orders, items, log, pend>>

\* one verify request given to the three copies: what each answers before the
\* inventory loop (status 0: it enters the loop, whose text is the same in all)
SideVerify(r, bodies) ==
  /\ pc[r] = "idle"
  /\ \E b \in bodies, settingsOk \in BOOLEAN :
       LET g == VerifyGate(config, b, settingsOk) IN
       /\ body' = [body EXCEPT ![r] = b]
       /\ IF g.status = 0 THEN Proceed(r, b) ELSE Reply(r, g)
       /\ side' = [c \in Copies |->
                     IF c = "payment" THEN g
                     ELSE IF c = "part_000" THEN VerifyGate000(config, b, settingsOk)
                     ELSE VerifyGate001(config, b)]
  /\ UNCHANGED <<config, remote, products, stock0, orders, items, log, pend>>

\* one manual request given to the three copies, whose /manual has one text
SideManual(r, bodies) ==
  /\ pc[r] = "idle"
  /\ \E b \in bodies :
       LET g == ManualGate(b) IN
       /\ body' = [body EXCEPT ![r] = b]
       /\ IF g.status = 0 THEN Proceed(r, b) ELSE Reply(r, g)
       /\ side' = [c \in Copies |-> g]
  /\ UNCHANGED <<config, remote, products, stock0, orders, items, log, pend>>

\* ---------------------------------------------------------- specifications
ConcVerifyBodies ==
  VerifyBodies({"", "o1"}, {"p1"}, Signatures, ConcShippings, MaxConcItems)

ConcManualBodies == ManualBodies({"", "t1"}, ConcShippings, MaxConcItems)

ConcCreateBodies == CreateBodies({<<0>>, <<4>>}, {[shape |-> "array", nItems |-> 1]})

\* two requests, interleaved at their awaits
Next ==
  \E r \in Req :
    \/ CreateOrderStart(r, ConcCreateBodies)
    \/ ProviderSettles(r)
    \/ VerifyStart(r, ConcVerifyBodies)
    \/ ManualStart(r, ConcManualBodies)
    \/ FindProduct(r, ConcItems)
    \/ SaveItem(r)
    \/ SaveOrder(r)
    \/ FindUser(r)
    \/ EmailSettles(r)
    \/ StoreFails(r)

Spec == Init /\ [][Next]_vars

AllVerifyBodies ==
  VerifyBodies({"", " ", "o1", "o2"}, {"", "p1"}, Signatures, Shippings, MaxItems)

AllManualBodies == ManualBodies({"", " ", "t1", " t1 "}, Shippings, MaxItems)

AllCreateBodies == CreateBodies(CreateAmounts, ItemShapes(1))

\* one request running alone, over every body and item
NextOne ==
  \/ CreateOrderStart("r1", AllCreateBodies)
  \/ ProviderSettles("r1")
  \/ VerifyStart("r1", AllVerifyBodies)
  \/ ManualStart("r1", AllManualBodies)
  \/ FindProduct("r1", AllItems)
  \/ SaveItem("r1")
  \/ SaveOrder("r1")
  \/ FindUser("r1")
  \/ EmailSettles("r1")
  \/ StoreFails("r1")

SpecOne == Init /\ [][NextOne]_vars

\* signatures issued under either secret for every pair of ids, and none
SigSignatures ==
  { NoSig } \cup { HMAC(k, SigMessage(o, p)) :
                     k \in {"envS", "dbS"}, o \in {"o1", "o2"}, p \in {"p1", "p2"} }

\* pure verifications: identifiers and signature, no item payload
SigBodies ==
  { MkBody("verify", o, p, sg, "", [city |-> "", state |-> "", pincode |-> NoPin],
           [shape |-> "absent", nItems |-> 0]) :
      o \in {"o1", "o2"}, p \in {"p1", "p2"}, sg \in SigSignatures }

\* the signature check applied to two triples
NextSig == \E r \in Req : VerifyStart(r, SigBodies)

SpecSig == Init /\ [][NextSig]_vars

\* the steps of a request in flight: an awaited operation settles and the handler runs
\* on to its next await or to its response
Settle(r) ==
  \/ ProviderSettles(r)
  \/ FindProduct(r, ConcItems)
  \/ SaveItem(r)
  \/ SaveOrder(r)
  \/ FindUser(r)
  \/ EmailSettles(r)
  \/ StoreFails(r)

NextLive ==
  \/ CreateOrderStart("r1", ConcCreateBodies)
  \/ VerifyStart("r1", ConcVerifyBodies)
  \/ ManualStart("r1", ConcManualBodies)
  \/ Settle("r1")

\* one request whose awaited operations all settle, by resolving or by rejecting
SpecLive == Init /\ [][NextLive]_vars /\ WF_vars(Settle("r1"))

\* credentials in the environment and in the settings record: the same pair in
\* both, or a different pair in each
SideConfigs ==
  { [envKeyId |-> "rzp_env", envKeySecret |-> "envS", dbKeyId |-> "rzp_env", dbKeySecret |-> "envS"],
    [envKeyId |-> "rzp_env", envKeySecret |-> "envS", dbKeyId |-> "rzp_db", dbKeySecret |-> "dbS"] }

SideVerifyBodies ==
  VerifyBodies({"", " ", "o1"}, {"p1"},
               Signatures \cup { HMAC("envS", SigMessage(" ", "p1")) },
               ConcShippings, MaxConcItems)

SideManualBodies == ManualBodies({"", " ", "t1"}, ConcShippings, MaxConcItems)

InitSide ==
  /\ config \in SideConfigs
  /\ products \in InitialProducts
  /\ stock0 = products
  /\ orders = <<>>
  /\ pc = [r \in Req |-> "idle"]
  /\ body = [r \in Req |-> NoBody]
  /\ items = [r \in Req |-> <<>>]
  /\ log = [r \in Req |-> <<>>]
  /\ pend = [r \in Req |-> <<>>]
  /\ resp = [r \in Req |-> NoResp]
  /\ remote = [r \in Req |-> <<>>]
  /\ side = NoSide

\* one request served by the three copies side by side, and the inventory loop
\* they share
NextSide ==
  \/ SideCreateOrder("r1", AllCreateBodies)
  \/ SideVerify("r1", SideVerifyBodies)
  \/ SideManual("r1", SideManualBodies)
  \/ FindProduct("r1", ConcItems)
  \/ SaveItem("r1")
  \/ SaveOrder("r1")
  \/ FindUser("r1")
  \/ EmailSettles("r1")
  \/ StoreFails("r1")

SpecSide == InitSide /\ [][NextSide]_vars

\* ------------------------------------------------------ reading the state
\* the quantity a (product, path) pair holds in a Product collection
Stored(db, pid, idx) ==
  IF idx = 0 THEN db[pid].stock ELSE db[pid].sizeInventory[idx].qty

\* the quantity paths of the collection: <<product, 0>> and <<product, k>>
Slots == { <<p, k>> : p \in ProductIds, k \in 0..2 } \ { <<"P1", 2>> }

\* the Order Records request r created
OrdersOf(r) == { k \in 1..Len(orders) : orders[k].req = r }

\* the sum of the decrements of the log entries whose save reached the store
RECURSIVE SumDec(_, _, _)
SumDec(lg, pid, idx) ==
  IF lg = <<>> THEN 0
  ELSE (IF lg[1].out = "dec" /\ lg[1].saved /\ lg[1].pid = pid /\ lg[1].idx = idx
          THEN lg[1].dec ELSE 0)
       + SumDec(Tail(lg), pid, idx)

\* every decrement saved so far, by any request
Sold(pid, idx) == SumDec(log["r1"], pid, idx) + SumDec(log["r2"], pid, idx)

\* the quantity of product pid a sequence of line items asks for
RECURSIVE SumQty(_, _)
SumQty(its, pid) ==
  IF its = <<>> THEN 0
  ELSE (IF its[1].productId = pid THEN RequestedQty(its[1]) ELSE 0)
       + SumQty(Tail(its), pid)

\* the quantity of product pid over all items of a sequence of Order Records
RECURSIVE OrderedQty(_, _)
OrderedQty(os, pid) ==
  IF os = <<>> THEN 0
  ELSE SumQty(os[1].items, pid) + OrderedQty(Tail(os), pid)

\* the secret getRazorpayInstance resolves: environment first, settings record second
ResolvedSecret(cfg) == OrElse(cfg.envKeySecret, cfg.dbKeySecret)

Started(r) == pc[r] # "idle"
Done(r) == pc[r] = "done"

\* ------------------------------------------------------------------ claims

\* C1: a /payment/verify request whose signature differs from the HMAC-SHA256 of
\* "razorpayOrderId|razorpayPaymentId" under the resolved secret persists no Order
\* Record and decrements no product quantity; with the credentials resolved it
\* ends with status 400, and with the message "Invalid payment signature" once the
\* three identifiers are present.
C1_SignatureMismatch(r) ==
  /\ Started(r)
  /\ body[r].kind = "verify"
  /\ body[r].sig # HMAC(ResolvedSecret(config), SigMessage(body[r].oid, body[r].pid))

C1_BadSignatureRejected ==
  \A r \in Req :
    C1_SignatureMismatch(r) =>
      /\ OrdersOf(r) = {}
      /\ \A k \in 1..Len(orders) : orders[k].status = "paid" => orders[k].req # r
      /\ items[r] = <<>> /\ log[r] = <<>> /\ pend[r] = <<>>
      /\ Done(r)
      /\ resp[r].status \in {400, 500}
      /\ (config.envKeySecret # "" /\ config.envKeyId # "" /\ ~resp[r].fault)
           => /\ resp[r].status = 400
              /\ (~Blank(body[r].oid) /\ ~Blank(body[r].pid) /\ body[r].sig # NoSig)
                   => resp[r].msg = "Invalid payment signature"

\* C1 witness: with stock on the shelf, a request carrying items, a valid address and
\* a signature issued for another order has been answered 400 "Invalid payment signature"
C1_Witness ==
  \E r \in Req :
    /\ C1_SignatureMismatch(r)
    /\ body[r].sig = HMAC("envS", SigMessage("o2", "p1"))
    /\ body[r].oid = "o1"
    /\ HasItems(body[r]) /\ PinOk(body[r].pincode)
    /\ products["P1"].stock > 0
    /\ resp[r].status = 400 /\ resp[r].msg = "Invalid payment signature"

\* C2: under any interleaving of /payment/verify and /payment/manual requests with
\* positive integer quantities, every flat stock and every sizeInventory qty stays >= 0.
C2_QuantitiesNeverNegative ==
  \A s \in Slots : Stored(products, s[1], s[2]) >= 0

\* two requests read the same quantity of the same path, each found it sufficient,
\* and both saved their decrement, which together exceed what was read
C3_Raced(s) ==
  \E i \in 1..Len(log["r1"]), j \in 1..Len(log["r2"]) :
    LET a == log["r1"][i]
        b == log["r2"][j]
    IN /\ a.out = "dec" /\ a.saved /\ a.pid = s[1] /\ a.idx = s[2]
       /\ b.out = "dec" /\ b.saved /\ b.pid = s[1] /\ b.idx = s[2]
       /\ a.avail = b.avail
       /\ a.dec + b.dec > a.avail[1]

\* C2 witness: two requests raced on one quantity and the quantity is 0
C2_Witness ==
  \E s \in Slots : C3_Raced(s) /\ Stored(products, s[1], s[2]) = 0

\* C3 (as claimed): two simultaneous checkouts that both read sufficient stock and
\* both decrement and save leave the stored quantity negative.
C3_RaceDrivesQuantityNegative ==
  \A s \in Slots : C3_Raced(s) => Stored(products, s[1], s[2]) < 0

\* C3 (amended): when two simultaneous checkouts both read sufficient stock and both
\* decrement and save, the stored quantity is the one a save computed from its own
\* read: it is never negative, and it is larger than the initial quantity less the
\* decrements saved (a decrement is lost and the product is oversold).
C3_RaceLosesDecrement ==
  \A s \in Slots :
    C3_Raced(s) =>
      /\ Stored(products, s[1], s[2]) >= 0
      /\ Stored(products, s[1], s[2]) > Stored(stock0, s[1], s[2]) - Sold(s[1], s[2])

\* C3 witness: both requests read 1 of the flat product, both saved, each has its
\* Order Record, and 2 units are sold of a stock of 1
C3_Witness ==
  /\ C3_Raced(<<"P1", 0>>)
  /\ stock0["P1"].stock = 1
  /\ Sold("P1", 0) = 2
  /\ OrdersOf("r1") # {} /\ OrdersOf("r2") # {}

\* C4 (as claimed): every item of a persisted Order Record that references an existing
\* product was compared against the product's available quantity and found sufficient
\* before order.save(), also when the product is tracked per size and the item names
\* no size or a size absent from sizeInventory.
C4_OrderOnlyAfterStockConfirmed ==
  \A k \in 1..Len(orders) :
    \A i \in 1..Len(orders[k].items) :
      orders[k].items[i].productId \in ProductIds
        => /\ i <= Len(log[orders[k].req])
           /\ log[orders[k].req][i].out = "dec"

\* C5 (as claimed): alone, a checkout of one item of a flat-stock product holding q
\* succeeds with qty q and leaves 0, and fails with 409 with qty q + 1 and leaves q,
\* for every q >= 0 (qty 0 as sent by the client when q = 0).
C5_ExactStockBoundary ==
  \A r \in Req :
    (/\ Done(r) /\ ~resp[r].fault
     /\ body[r].nItems = 1 /\ Len(items[r]) = 1
     /\ items[r][1].productId = "P1" /\ items[r][1].qty # <<>>)
    => LET q == stock0["P1"].stock
           n == items[r][1].qty[1]
       IN /\ n = q => resp[r].status = 200 /\ products["P1"].stock = 0
          /\ n = q + 1 => resp[r].status = 409 /\ products["P1"].stock = q

\* C6: when item k of a checkout meets insufficient stock, the request ends there with
\* 409 carrying the item's id and the available quantity, no Order Record is created,
\* and the decrements saved for items 1..k-1 stay in the store.
C6_PartialFailureKeepsDecrements ==
  \A r \in Req :
    resp[r].status = 409 =>
      LET k == Len(log[r]) IN
      /\ Done(r) /\ pend[r] = <<>>
      /\ k >= 1 /\ Len(items[r]) = k
      /\ log[r][k].out = "short"
      /\ \A i \in 1..(k - 1) : log[r][i].out # "short"
      /\ resp[r].itemId = items[r][k].productId
      /\ resp[r].availableQty = log[r][k].avail
      /\ resp[r].availableQty = <<Stored(products, log[r][k].pid, log[r][k].idx)>>
      /\ RequestedQty(items[r][k]) > resp[r].availableQty[1]
      /\ OrdersOf(r) = {} /\ resp[r].order = 0
      /\ \A s \in Slots :
           Stored(products, s[1], s[2])
             = Stored(stock0, s[1], s[2]) - SumDec(SubSeq(log[r], 1, k - 1), s[1], s[2])

\* C6 witness: the second item failed after the first one's decrement was saved
C6_Witness ==
  \E r \in Req :
    /\ resp[r].status = 409
    /\ Len(log[r]) = 2
    /\ log[r][1].out = "dec" /\ log[r][1].saved /\ log[r][1].dec > 0
    /\ Stored(products, log[r][1].pid, log[r][1].idx)
         < Stored(stock0, log[r][1].pid, log[r][1].idx)

\* C7 (as claimed): a request adds exactly one Order Record when it answers success
\* with an item payload and none when it answers 400, 409 or 500.
C7_OneOrderPerSuccess ==
  \A r \in Req :
    Done(r) =>
      /\ (resp[r].status = 200 /\ (body[r].kind = "manual" \/ HasItems(body[r])))
           => Cardinality(OrdersOf(r)) = 1
      /\ resp[r].status \in {400, 409, 500} => OrdersOf(r) = {}

\* C8: an item naming size c of a per-size product changes only the qty of the
\* sizeInventory entry whose code is c; every other size, the flat stock and every
\* other product stay as they were.
C8_SizeDecrementFrame ==
  [][\A r \in Req :
       (/\ log'[r] # log[r]
        /\ LET it == items'[r][Len(items'[r])] IN
           /\ it.productId \in ProductIds
           /\ products[it.productId].trackInventoryBySize
           /\ it.size # "")
       => LET it == items'[r][Len(items'[r])] IN
          /\ \A p \in ProductIds :
               /\ products'[p].stock = products[p].stock
               /\ products'[p].trackInventoryBySize = products[p].trackInventoryBySize
               /\ Len(products'[p].sizeInventory) = Len(products[p].sizeInventory)
               /\ \A k \in 1..Len(products[p].sizeInventory) :
                    /\ products'[p].sizeInventory[k].code = products[p].sizeInventory[k].code
                    /\ products'[p].sizeInventory[k].qty # products[p].sizeInventory[k].qty
                         => /\ p = it.productId
                            /\ products[p].sizeInventory[k].code = it.size
                            /\ products'[p].sizeInventory[k].qty
                                 = products[p].sizeInventory[k].qty - RequestedQty(it)
     ]_vars

\* C8 witness: size M of the per-size product was decremented to 0 while size S, in
\* stock, and the flat stock kept their quantities
C8_Witness ==
  \E r \in Req :
    \E i \in 1..Len(log[r]) :
      /\ log[r][i].out = "dec" /\ log[r][i].saved
      /\ items[r][i].productId = "P2" /\ items[r][i].size = "M"
      /\ Stored(products, "P2", 2) = 0
      /\ Stored(stock0, "P2", 2) = 1
      /\ Stored(products, "P2", 1) = Stored(stock0, "P2", 1)
      /\ Stored(products, "P2", 1) > 0
      /\ products["P2"].stock = stock0["P2"].stock

\* the pincodes of the model that match ^\d{4,8}$
ValidPins == {Pin4, Pin8}

C9_BadShipping(b) ==
  b.city = "" \/ b.state = "" \/ b.pincode \notin ValidPins

\* C9: a /payment/verify (with items) or /payment/manual request rejected with 400 is
\* rejected before any inventory mutation: quantities and Order Records are those of
\* before the request; and a blank transaction id, an empty item list, a missing
\* city, state or pincode, or a pincode not matching ^\d{4,8}$ is so rejected.
C9_RejectedBeforeMutation ==
  \A r \in Req :
    Done(r) =>
      /\ resp[r].status = 400
           => /\ products = stock0 /\ orders = <<>>
              /\ items[r] = <<>> /\ log[r] = <<>> /\ pend[r] = <<>>
      /\ (/\ body[r].kind = "manual"
          /\ \/ Blank(body[r].txn)
             \/ ~HasItems(body[r])
             \/ C9_BadShipping(body[r]))
           => resp[r].status = 400
      /\ (/\ body[r].kind = "verify" /\ HasItems(body[r]) /\ C9_BadShipping(body[r]))
           => /\ resp[r].status \in {400, 500}
              /\ (resp[r].status = 500 => resp[r].fault \/ ~VerifyCredentialsOk(config, TRUE))
              /\ products = stock0 /\ orders = <<>>

\* C9 witness: with stock on the shelf, a manual submission of two items with a
\* transaction id and a pincode holding a letter was answered 400 "Invalid pincode"
C9_Witness ==
  \E r \in Req :
    /\ Done(r) /\ body[r].kind = "manual"
    /\ body[r].txn = "t1" /\ body[r].nItems = 2 /\ body[r].pincode = PinAlpha
    /\ products["P1"].stock > 0
    /\ resp[r].status = 400 /\ resp[r].msg = "Invalid pincode"

\* a /payment/verify request with a valid signature and no item payload
C10_PureVerification(r) ==
  /\ Started(r)
  /\ body[r].kind = "verify"
  /\ ~Blank(body[r].oid) /\ ~Blank(body[r].pid)
  /\ config.envKeyId # "" /\ config.envKeySecret # ""
  /\ body[r].sig = HMAC(config.envKeySecret, SigMessage(body[r].oid, body[r].pid))
  /\ (body[r].shape \in {"absent", "notArray"} \/ body[r].nItems = 0)

\* C10: every call of /payment/verify with the same valid signature and no item payload
\* (items absent, not an array, or empty) answers success, creates no Order Record and
\* changes no product quantity.
C10_PureVerificationIdempotent ==
  /\ \A r \in Req :
       C10_PureVerification(r) =>
         /\ Done(r)
         /\ ~resp[r].fault
              => /\ resp[r].status = 200
                 /\ resp[r].msg = "Payment verified successfully"
                 /\ resp[r].order = 0
         /\ OrdersOf(r) = {}
         /\ items[r] = <<>> /\ log[r] = <<>> /\ pend[r] = <<>>
  /\ (\A r \in Req : Started(r) => C10_PureVerification(r))
       => products = stock0 /\ orders = <<>>

\* C10 witness: the same pure verification was made twice, both answered success, and
\* the store is as it was
C10_Witness ==
  /\ C10_PureVerification("r1") /\ C10_PureVerification("r2")
  /\ body["r1"] = body["r2"]
  /\ body["r1"].shape = "array"
  /\ resp["r1"].status = 200 /\ resp["r2"].status = 200
  /\ products = stock0 /\ orders = <<>>

\* request r ended at a gate: nothing behind the gate has run
C11_StoppedAtGate(r) ==
  /\ Done(r)
  /\ items[r] = <<>> /\ log[r] = <<>> /\ pend[r] = <<>>
  /\ OrdersOf(r) = {} /\ resp[r].order = 0 /\ resp[r].mail = "none"
  /\ products = stock0 /\ orders = <<>>

\* the settings lookup of the credentials step rejected
C11_LookupFailed(r) ==
  /\ resp[r].status = 500 /\ resp[r].fault
  /\ resp[r].msg = "Payment verification system not configured"

\* C11: /payment/verify passes its gates in a fixed order - identifiers present and
\* non-blank (else 400), gateway secret resolved (else 500), signature valid (else
\* 400), shipping fields valid (else 400), stock sufficient for each item in turn
\* (else 409), Order Record persisted, notification triggered - the response of a
\* failing request is the one of the first gate that fails, and nothing behind that
\* gate runs: no decrement, no order save.
C11_GatesInOrder ==
  \A r \in Req :
    (Started(r) /\ body[r].kind = "verify") =>
      LET b == body[r]
          idsOk == ~Blank(b.oid) /\ ~Blank(b.pid) /\ b.sig # NoSig
          secretOk == /\ config.envKeySecret # ""
                      /\ (config.envKeyId # "" \/ config.dbKeyId # "")
          sigOk == b.sig = HMAC(config.envKeySecret, SigMessage(b.oid, b.pid))
          shipOk == b.city # "" /\ b.state # "" /\ b.pincode \in ValidPins
          n == Len(log[r])
      IN
      /\ ~idsOk =>
            /\ C11_StoppedAtGate(r) /\ resp[r].status = 400
            /\ resp[r].msg = (IF Blank(b.oid) THEN "Missing or invalid Razorpay order ID"
                               ELSE IF Blank(b.pid) THEN "Missing or invalid Razorpay payment ID"
                               ELSE "Missing or invalid payment signature")
      /\ (idsOk /\ ~secretOk) =>
            /\ C11_StoppedAtGate(r) /\ resp[r].status = 500
            /\ resp[r].msg = "Payment verification system not configured"
      /\ (idsOk /\ secretOk /\ ~sigOk) =>
            /\ C11_StoppedAtGate(r)
            /\ \/ resp[r].status = 400 /\ resp[r].msg = "Invalid payment signature"
               \/ C11_LookupFailed(r)
      /\ (idsOk /\ secretOk /\ sigOk /\ HasItems(b) /\ ~shipOk) =>
            /\ C11_StoppedAtGate(r)
            /\ \/ /\ resp[r].status = 400
                  /\ resp[r].msg = (IF b.city = "" \/ b.state = "" \/ b.pincode = NoPin
                                      THEN "City, state, and pincode are required"
                                      ELSE "Invalid pincode")
               \/ C11_LookupFailed(r)
      /\ (idsOk /\ secretOk /\ sigOk /\ HasItems(b) /\ shipOk) =>
            /\ \A i \in 1..(n - 1) :
                  /\ log[r][i].out # "short"
                  /\ (log[r][i].out = "dec" => log[r][i].saved)
            /\ (resp[r].status = 409) <=> (n > 0 /\ log[r][n].out = "short")
            /\ (resp[r].status = 409) => (OrdersOf(r) = {} /\ pend[r] = <<>> /\ Done(r))
            /\ (pc[r] \in {"order", "user", "email"} \/ OrdersOf(r) # {}) =>
                  /\ n = b.nItems /\ log[r][n].out # "short" /\ pend[r] = <<>>
                  /\ (log[r][n].out = "dec" => log[r][n].saved)
            /\ (pc[r] \in {"user", "email"} \/ resp[r].mail # "none" \/ resp[r].order # 0)
                  => Cardinality(OrdersOf(r)) = 1
            /\ (pc[r] \in {"find", "save", "order"}) => OrdersOf(r) = {}
            /\ (Done(r) /\ ~resp[r].fault) => resp[r].status \in {200, 409}
            /\ (resp[r].status = 200) => (resp[r].order # 0 /\ resp[r].mail # "none")

\* C11 witness: a request failing three gates at once - a signature issued for another
\* order, a pincode of three digits, an item list - was answered by the signature gate
C11_Witness ==
  \E r \in Req :
    /\ Done(r) /\ body[r].kind = "verify"
    /\ body[r].oid = "o1" /\ body[r].pid = "p1"
    /\ body[r].sig = HMAC("envS", SigMessage("o2", "p1"))
    /\ config.envKeySecret = "envS"
    /\ body[r].nItems = 2 /\ body[r].pincode = Pin3
    /\ resp[r].status = 400 /\ resp[r].msg = "Invalid payment signature"

\* request r is a /verify whose three identifiers are present and whose secret the
\* handler obtained: the signature check has been applied to it
C12_Checked(r) ==
  /\ Done(r) /\ body[r].kind = "verify"
  /\ ~Blank(body[r].oid) /\ ~Blank(body[r].pid) /\ body[r].sig # NoSig
  /\ config.envKeySecret # "" /\ ~resp[r].fault

C12_Accepted(r) == resp[r].status = 200 /\ resp[r].msg = "Payment verified successfully"

C12_Rejected(r) == resp[r].status = 400 /\ resp[r].msg = "Invalid payment signature"

\* the number of fields among order id, payment id and signature in which two
\* bodies differ
C12_Differences(a, b) ==
  Cardinality({ f \in {"oid", "pid", "sig"} : a[f] # b[f] })

\* C12: the signature check is a function of (order id, payment id, signature,
\* secret): it accepts exactly when the signature is the HMAC-SHA256 of
\* orderId + "|" + paymentId under the secret; of an accepted triple, a change of the
\* order id alone, of the payment id alone or of the signature alone is rejected;
\* and a mismatch is answered 400, never 500.
C12_SignatureFunction ==
  /\ \A r \in Req :
       C12_Checked(r) =>
         /\ C12_Accepted(r) \/ C12_Rejected(r)
         /\ C12_Accepted(r) <=>
               body[r].sig = HMAC(config.envKeySecret, body[r].oid \o "|" \o body[r].pid)
  /\ \A r \in Req, q \in Req :
       (C12_Checked(r) /\ C12_Checked(q)) =>
         /\ body[r] = body[q] => resp[r] = resp[q]
         /\ (C12_Accepted(r) /\ C12_Differences(body[r], body[q]) = 1) => C12_Rejected(q)

\* C12 witness: a triple was accepted and the same payment id and signature presented
\* with another order id were rejected
C12_Witness ==
  /\ C12_Checked("r1") /\ C12_Checked("r2")
  /\ C12_Accepted("r1") /\ C12_Rejected("r2")
  /\ body["r1"].oid = "o1" /\ body["r2"].oid = "o2"
  /\ body["r1"].pid = body["r2"].pid /\ body["r1"].sig = body["r2"].sig

\* C13: /payment/create-order changes no local state whatever its outcome: every step
\* of such a request leaves the product quantities and the Order Records as they
\* were, also when the request is repeated, and the request never has an item read,
\* a document to save or an Order Record of its own.
C13_CreateOrderFrame ==
  [][\A r \in Req :
       (body'[r].kind = "create" /\ pc'[r] # pc[r])
         => /\ products' = products /\ orders' = orders
            /\ items'[r] = <<>> /\ log'[r] = <<>> /\ pend'[r] = <<>>
            /\ { k \in 1..Len(orders') : orders'[k].req = r } = {}
     ]_vars

\* C13 witness: the same create-order was made twice, the provider created an order
\* each time, and stock and Order Records are those of the initial state
C13_Witness ==
  /\ body["r1"].kind = "create" /\ body["r1"] = body["r2"]
  /\ resp["r1"].status = 200 /\ resp["r2"].status = 200
  /\ remote["r1"][1].outcome = "created" /\ remote["r2"][1].outcome = "created"
  /\ products["P1"].stock > 0
  /\ products = stock0 /\ orders = <<>>

\* C14: a /payment/create-order whose amount is zero, negative or not a finite number,
\* or whose items are empty or not a list, is answered 400 and rzp.orders.create is
\* not called for it.
C14_InvalidCreateOrderRejected ==
  \A r \in Req :
    (Started(r) /\ body[r].kind = "create") =>
      LET a == body[r].amount
          badAmount == a = <<>> \/ a[1] <= 0
          badItems == body[r].shape # "array" \/ body[r].nItems = 0
      IN (badAmount \/ badItems) =>
           /\ Done(r) /\ resp[r].status = 400
           /\ resp[r].msg = (IF badAmount THEN "Invalid amount provided"
                              ELSE "No items in order")
           /\ remote[r] = <<>>
           /\ resp[r].orderId = ""

\* C14 witness: with the gateway configured, a create-order of one item and a negative
\* amount was answered 400 without a call of the provider
C14_Witness ==
  \E r \in Req :
    /\ Done(r) /\ body[r].kind = "create"
    /\ body[r].amount = <<-4>> /\ body[r].shape = "array" /\ body[r].nItems = 1
    /\ config.envKeyId # "" /\ config.envKeySecret # ""
    /\ resp[r].status = 400 /\ remote[r] = <<>>

\* the call of rzp.orders.create request r made, or none
C15_Call(r) == IF remote[r] = <<>> THEN [outcome |-> "none", id |-> ""] ELSE remote[r][1]

\* C15: for a /payment/create-order with a valid amount and items, credentials that
\* cannot be resolved are answered 500, a provider call that throws 502, a provider
\* response without an identifier 502, and success is answered only when the provider
\* returned an order identifier, which the response carries.
C15_CreateOrderFailureStatus ==
  \A r \in Req :
    (/\ Done(r) /\ body[r].kind = "create"
     /\ body[r].amount # <<>> /\ body[r].amount[1] > 0
     /\ body[r].shape = "array" /\ body[r].nItems > 0)
    => /\ ((config.envKeyId = "" /\ config.dbKeyId = "")
             \/ (config.envKeySecret = "" /\ config.dbKeySecret = "")
             \/ resp[r].fault)
            => /\ resp[r].status = 500
               /\ resp[r].msg = "Razorpay is not properly configured on the server"
               /\ remote[r] = <<>>
       /\ C15_Call(r).outcome = "threw" => resp[r].status = 502
       /\ C15_Call(r).outcome = "noId" => resp[r].status = 502
       /\ resp[r].status = 502 => C15_Call(r).outcome \in {"threw", "noId"}
       /\ resp[r].status = 200
            => /\ C15_Call(r).outcome = "created"
               /\ C15_Call(r).id # "" /\ resp[r].orderId = C15_Call(r).id

\* C15 witness: the provider answered without an identifier and the request got 502
C15_Witness ==
  \E r \in Req :
    /\ Done(r) /\ body[r].kind = "create"
    /\ body[r].amount = <<4>>
    /\ remote[r] # <<>> /\ remote[r][1].outcome = "noId"
    /\ resp[r].status = 502 /\ resp[r].orderId = ""

\* a /payment/create-order with a positive finite amount and a non-empty item list,
\* the gateway configured and the provider creating the order whenever it is called
C16_GoodCreateOrder(r) ==
  /\ Done(r) /\ body[r].kind = "create"
  /\ body[r].amount # <<>> /\ body[r].amount[1] > 0
  /\ body[r].shape = "array" /\ body[r].nItems > 0
  /\ config.envKeyId # "" /\ config.envKeySecret # "" /\ ~resp[r].fault
  /\ remote[r] # <<>> => remote[r][1].outcome = "created"

\* C16 (as claimed): for every positive finite amount, whole or not, and every non-empty
\* item list, create-order returns a remote order id together with an amount equal to
\* the input exactly.
C16_AmountEchoedExactly ==
  \A r \in Req :
    C16_GoodCreateOrder(r) =>
      /\ resp[r].status = 200 /\ resp[r].orderId # ""
      /\ resp[r].amount = body[r].amount

\* C16 (amended): a success response of create-order carries a remote order id
\* together with the amount rounded to the nearest whole number of minor units, halves
\* upwards, which is the amount the provider was called with: the input exactly when
\* the input is whole. With the credentials in the environment and the provider
\* succeeding, a positive amount of one half or more gets that response, and a
\* positive amount below one half is answered 400 without a call of the provider.
C16_AmountEchoedRounded ==
  \A r \in Req :
    /\ (Done(r) /\ body[r].kind = "create" /\ resp[r].status = 200) =>
         LET a == body[r].amount[1] IN
         /\ resp[r].orderId # "" /\ resp[r].amount # <<>>
         /\ resp[r].amount[1] % 4 = 0
         /\ resp[r].amount[1] - a \in (-1)..2
         /\ (a % 4 = 0 => resp[r].amount[1] = a)
         /\ remote[r][1].amount = resp[r].amount[1]
    /\ C16_GoodCreateOrder(r) =>
         IF body[r].amount[1] < 2
           THEN /\ resp[r].status = 400
                /\ resp[r].msg = "Amount must be greater than zero"
                /\ remote[r] = <<>>
           ELSE resp[r].status = 200

\* C16 witness: an amount of one and a half was answered with an amount of two
C16_Witness ==
  \E r \in Req :
    /\ C16_GoodCreateOrder(r)
    /\ body[r].amount = <<6>>
    /\ resp[r].status = 200 /\ resp[r].amount = <<8>>

\* C17 (as claimed): credentials are resolved environment first, settings record
\* second: with no key id and secret in the environment and both in the settings
\* record, create-order and verify pass the configuration gate (no 500 for missing
\* configuration); with a value in both, the environment's is the one used.
C17_SettingsFallback ==
  \A r \in Req :
    (Done(r) /\ ~resp[r].fault /\ config.dbKeyId # "" /\ config.dbKeySecret # "") =>
      /\ (/\ body[r].kind = "verify"
          /\ ~Blank(body[r].oid) /\ ~Blank(body[r].pid) /\ body[r].sig # NoSig)
           => /\ resp[r].status # 500
              /\ (resp[r].msg = "Invalid payment signature") <=>
                   (body[r].sig # HMAC(ResolvedSecret(config),
                                       SigMessage(body[r].oid, body[r].pid)))
      /\ (/\ body[r].kind = "create"
          /\ body[r].amount # <<>> /\ body[r].amount[1] > 0
          /\ body[r].shape = "array" /\ body[r].nItems > 0)
           => /\ resp[r].status # 500
              /\ (resp[r].status = 200) =>
                   resp[r].keyId = OrElse(config.envKeyId, config.dbKeyId)

\* C18 (as claimed): once the Order Record of a request is persisted, a failure of the
\* notification step - the user lookup for the address, or the sending of the email -
\* is not surfaced to the client and rolls nothing back: the request is answered
\* ok: true with the order, and the order stays stored.
C18_NotificationFailureHidden ==
  \A r \in Req :
    (Done(r) /\ OrdersOf(r) # {}) =>
      /\ resp[r].status = 200
      /\ resp[r].order \in OrdersOf(r)

\* C19 (as claimed): the notification is fire-and-forget: the response does not wait
\* for sendOrderConfirmationEmail to complete, so that whenever the email of a
\* persisted order is in flight the response has been sent.
C19_ResponseNotBehindEmail ==
  \A r \in Req :
    (OrdersOf(r) # {} /\ pc[r] = "email") => resp[r].status = 200

\* a /manual of one item {P1, qty n} of the flat-stock product holding s, 1 <= n <= s,
\* with a valid address and a non-blank transaction id, has been answered
C20_ManualOfFlatProduct(r) ==
  /\ Done(r) /\ ~resp[r].fault
  /\ body[r].kind = "manual" /\ ~Blank(body[r].txn)
  /\ body[r].city # "" /\ body[r].state # "" /\ body[r].pincode \in ValidPins
  /\ body[r].shape = "array" /\ body[r].nItems = 1 /\ Len(items[r]) = 1
  /\ items[r][1].productId = "P1" /\ items[r][1].qty # <<>>
  /\ items[r][1].qty[1] >= 1 /\ items[r][1].qty[1] <= stock0["P1"].stock

\* C20 (as claimed): after such a submission, whatever the gateway configuration,
\* stock(P) = s - n and exactly one new Order Record exists, with status "pending"
\* and upi.txnId equal to the submitted transaction id.
C20_ManualEndToEnd ==
  \A r \in Req :
    C20_ManualOfFlatProduct(r) =>
      /\ products["P1"].stock = stock0["P1"].stock - items[r][1].qty[1]
      /\ Len(orders) = 1 /\ OrdersOf(r) = {1}
      /\ orders[1].status = "pending"
      /\ orders[1].upi[1].txnId = body[r].txn

\* C20 (amended): after such a submission, whatever the gateway configuration,
\* stock(P) = s - n and exactly one new Order Record exists, with status "pending"
\* and upi.txnId equal to the submitted transaction id less its leading and trailing
\* whitespace.
C20_ManualEndToEndTrimmed ==
  \A r \in Req :
    C20_ManualOfFlatProduct(r) =>
      /\ resp[r].status = 200 /\ resp[r].order = 1
      /\ products["P1"].stock = stock0["P1"].stock - items[r][1].qty[1]
      /\ products["P2"] = stock0["P2"]
      /\ Len(orders) = 1 /\ OrdersOf(r) = {1}
      /\ orders[1].status = "pending"
      /\ orders[1].upi[1].txnId = (IF body[r].txn = " t1 " THEN "t1" ELSE body[r].txn)

\* C20 witness: with the gateway not configured, two units of a stock of two were
\* submitted under the transaction id " t1 "; the stock is 0 and the one Order Record
\* is pending under "t1"
C20_Witness ==
  \E r \in Req :
    /\ C20_ManualOfFlatProduct(r)
    /\ config.envKeyId = "" /\ config.dbKeyId = ""
    /\ body[r].txn = " t1 "
    /\ stock0["P1"].stock = 2 /\ items[r][1].qty = <<2>>
    /\ products["P1"].stock = 0
    /\ Len(orders) = 1 /\ orders[1].status = "pending" /\ orders[1].upi[1].txnId = "t1"

\* C21: every Order Record has the userId of the authenticated user of its request;
\* one created by /payment/verify has status "paid" and payment method "Razorpay", one
\* created by /payment/manual has status "pending" and a upi {txnId, payerName}
\* sub-record; a "paid" order exists only for a verify request that passed the
\* signature check.
C21_OrderRecordShape ==
  \A k \in 1..Len(orders) :
    LET o == orders[k]
        b == body[o.req]
    IN
    /\ o.userId = (IF o.req = "r1" THEN "u1" ELSE "u2")
    /\ b.kind \in {"verify", "manual"}
    /\ b.kind = "verify" =>
         /\ o.status = "paid" /\ o.paymentMethod = "Razorpay" /\ o.upi = <<>>
    /\ b.kind = "manual" =>
         /\ o.status = "pending"
         /\ Len(o.upi) = 1
         /\ DOMAIN o.upi[1] = {"txnId", "payerName"}
         /\ o.upi[1].txnId # ""
    /\ o.status = "paid" =>
         /\ b.kind = "verify"
         /\ b.sig # NoSig
         /\ b.sig = HMAC(config.envKeySecret, SigMessage(b.oid, b.pid))
         /\ config.envKeySecret # ""

\* C21 witness: a paid order of user u1 made by a verify request and a pending order
\* of user u2 made by a manual submission are both stored
C21_Witness ==
  \E j \in 1..Len(orders), k \in 1..Len(orders) :
    /\ orders[j].status = "paid" /\ orders[j].userId = "u1"
    /\ body[orders[j].req].kind = "verify"
    /\ orders[k].status = "pending" /\ orders[k].userId = "u2"
    /\ body[orders[k].req].kind = "manual"

\* an item without a product reference, or whose reference resolves to no product
C22_Unresolvable(item) == item.productId = "" \/ item.productId \notin ProductIds

\* C22: a line item without a product reference, or whose reference resolves to no
\* stored product, is passed over: it changes no quantity and does not fail the
\* request, the items after it are processed, and the order is created with the items
\* as given.
C22_UnresolvableItemSkipped ==
  /\ \A s \in Slots :
       Stored(products, s[1], s[2]) = Stored(stock0, s[1], s[2]) - Sold(s[1], s[2])
  /\ \A r \in Req :
    LET n == Len(log[r]) IN
    /\ \A i \in 1..n :
         C22_Unresolvable(items[r][i]) =>
           /\ log[r][i].out \in {"noref", "noproduct"}
           /\ log[r][i].dec = 0 /\ ~log[r][i].saved
           /\ (i = n) =>
                /\ pend[r] = <<>>
                /\ resp[r].status # 409
                /\ resp[r].status \in {0, 200} \/ resp[r].fault
                /\ (i < body[r].nItems /\ ~resp[r].fault) => pc[r] = "find"
                /\ (i = body[r].nItems /\ ~resp[r].fault)
                     => pc[r] \in {"order", "user", "email", "done"}
    /\ \A k \in OrdersOf(r) : orders[k].items = items[r] /\ Len(items[r]) = body[r].nItems
    /\ (/\ Done(r) /\ resp[r].status = 200
        /\ body[r].kind \in {"verify", "manual"} /\ body[r].nItems > 0)
         => OrdersOf(r) # {}

\* C22 witness: an order of two items was created, the first naming a product that is
\* not stored, the second taking one unit of the flat product, and only that unit left
\* the shelf
C22_Witness ==
  \E r \in Req :
    /\ Done(r) /\ resp[r].status = 200
    /\ Len(items[r]) = 2
    /\ items[r][1].productId = "PX" /\ log[r][1].out = "noproduct"
    /\ items[r][2].productId = "P1" /\ log[r][2].out = "dec" /\ log[r][2].dec = 1
    /\ OrdersOf(r) # {} /\ orders[1].items = items[r]
    /\ products["P1"].stock = stock0["P1"].stock - 1
    /\ products["P2"] = stock0["P2"]

\* a request is done exactly when it has its response; a response is {ok, message} with
\* a status; a rejected store operation shows as status 500
C23_Answered ==
  \A r \in Req :
    /\ Done(r) <=> resp[r].status # 0
    /\ resp[r].status \in {0, 200, 400, 409, 500, 502}
    /\ resp[r].fault => resp[r].status = 500 /\ resp[r].msg # ""
    /\ pc[r] \in {"idle", "provider", "find", "save", "order", "user", "email", "done"}

\* C23: every create-order, verify and manual request ends with exactly one response:
\* once sent the response is never replaced, a started request is eventually done, and
\* a store operation that fails (settings lookup, Product.findById, product.save,
\* order.save, user lookup) is answered with status 500.
C23_EveryRequestAnswered ==
  /\ []C23_Answered
  /\ [][\A r \in Req : resp[r].status # 0 => resp'[r] = resp[r] /\ pc'[r] = "done"]_vars
  /\ \A r \in Req : Started(r) ~> Done(r)

\* C23 witness: order.save() succeeded, the user lookup rejected, and the request was
\* answered 500
C23_Witness ==
  \E r \in Req :
    /\ Done(r) /\ resp[r].fault /\ resp[r].status = 500
    /\ resp[r].msg = "error.message"
    /\ OrdersOf(r) # {}

\* request q presents the verified payment of request r again: the same order id,
\* payment id, valid signature and item payload
C24_Replay(r, q) ==
  /\ r # q
  /\ body[r].kind = "verify" /\ body[q] = body[r]
  /\ body[r].sig = HMAC(config.envKeySecret, SigMessage(body[r].oid, body[r].pid))
  /\ HasItems(body[r])
  /\ Done(r) /\ Done(q) /\ items[r] = items[q]

\* C24 (as claimed): a verified gateway payment yields at most one Order Record and at
\* most one inventory decrement: a replay of /payment/verify with the same ids, valid
\* signature and items creates no second Order Record and decrements no stock again.
C24_VerifiedPaymentOrderedOnce ==
  \A r \in Req, q \in Req :
    C24_Replay(r, q) =>
      /\ ~(OrdersOf(r) # {} /\ OrdersOf(q) # {})
      /\ ~(\E i \in 1..Len(log[r]), j \in 1..Len(log[q]) :
             /\ log[r][i].out = "dec" /\ log[r][i].saved
             /\ log[q][j].out = "dec" /\ log[q][j].saved)

\* C25 (as claimed): no oversell under concurrency: under any interleaving of verify and
\* manual requests, the quantities of the flat-stock product over all items of the
\* persisted Order Records add up to no more than its initial stock.
C25_NoOversell ==
  OrderedQty(orders, "P1") <= stock0["P1"].stock

\* C26 (as claimed): checkout never increases inventory: every stock and every size qty
\* is at most what it was before the requests, for every item quantity a client can
\* send, zero and negative ones included.
C26_InventoryNeverIncreases ==
  \A s \in Slots : Stored(products, s[1], s[2]) <= Stored(stock0, s[1], s[2])

\* C27 (as claimed): create-order answers a configuration error (500) only before it
\* contacts the provider: no request for which rzp.orders.create created a remote order
\* is answered 500, also when the key id is in the settings record only.
C27_ConfigurationErrorBeforeProvider ==
  \A r \in Req :
    (Done(r) /\ body[r].kind = "create" /\ resp[r].status = 500) =>
      remote[r] = <<>>

\* the quantity the first j items of request r ask of the flat product
C28_Asked(r, j) == SumQty(SubSeq(items[r], 1, j), "P1")

\* a checkout, alone, all of whose items name the flat-stock product with a quantity
\* of 1 or more (an item without qty asks for 1), has been answered
C28_SameProductItems(r) ==
  /\ Done(r) /\ ~resp[r].fault
  /\ body[r].kind \in {"verify", "manual"}
  /\ Len(items[r]) >= 1
  /\ \A i \in 1..Len(items[r]) :
       /\ items[r][i].productId = "P1"
       /\ items[r][i].qty = <<>> \/ items[r][i].qty[1] >= 1

\* C28: when one request, alone, lists the same flat-stock product in items with
\* quantities n1..nk, each item is checked against the stock the previous items left:
\* the request succeeds iff stock >= n1+...+nk and leaves stock - (n1+...+nk);
\* otherwise it fails with 409 at the first item j whose quantity exceeds what is
\* left, reporting availableQty = stock - (n1+...+n(j-1)).
C28_CumulativeStockCheck ==
  \A r \in Req :
    C28_SameProductItems(r) =>
      LET s0 == stock0["P1"].stock
          k == Len(items[r])
      IN
      /\ resp[r].status \in {200, 409}
      /\ resp[r].status = 200 =>
           /\ k = body[r].nItems
           /\ C28_Asked(r, k) <= s0
           /\ products["P1"].stock = s0 - C28_Asked(r, k)
      /\ resp[r].status = 409 =>
           /\ \A j \in 1..(k - 1) : C28_Asked(r, j) <= s0
           /\ C28_Asked(r, k) > s0
           /\ resp[r].itemId = "P1"
           /\ resp[r].availableQty = <<s0 - C28_Asked(r, k - 1)>>
           /\ products["P1"].stock = s0 - C28_Asked(r, k - 1)
           /\ OrdersOf(r) = {}

\* C28 witness: of a stock of 2, the first item took 1 and the second, asking 2, was
\* refused with availableQty 1
C28_Witness ==
  \E r \in Req :
    /\ C28_SameProductItems(r)
    /\ stock0["P1"].stock = 2
    /\ Len(items[r]) = 2
    /\ items[r][1].qty = <<1>> /\ items[r][2].qty = <<2>>
    /\ resp[r].status = 409 /\ resp[r].availableQty = <<1>>
    /\ products["P1"].stock = 1

\* C29: one inventory representation is touched per product: an item for a product
\* with trackInventoryBySize set never changes the product's flat stock, an item for a
\* flat-stock product never changes its sizeInventory, whether or not the item names
\* a size; the tracking mode itself never changes.
C29_OneRepresentationTouched ==
  /\ \A p \in ProductIds :
       /\ products[p].trackInventoryBySize = stock0[p].trackInventoryBySize
       /\ products[p].trackInventoryBySize => products[p].stock = stock0[p].stock
       /\ ~products[p].trackInventoryBySize
            => products[p].sizeInventory = stock0[p].sizeInventory
  /\ \A r \in Req : \A i \in 1..Len(log[r]) :
       (log[r][i].out \in {"dec", "short"}) =>
         (log[r][i].idx # 0 <=> stock0[log[r][i].pid].trackInventoryBySize)

\* C29 witness: an item naming size S of the flat-stock product, which lists that
\* size, took its unit from the flat stock
C29_Witness ==
  \E r \in Req : \E i \in 1..Len(log[r]) :
    /\ items[r][i].productId = "P1" /\ items[r][i].size = "S"
    /\ log[r][i].out = "dec" /\ log[r][i].saved /\ log[r][i].idx = 0
    /\ products["P1"].stock < stock0["P1"].stock
    /\ products["P1"].sizeInventory = <<[code |-> "S", qty |-> 1]>>

\* what the loop noted of each item without qty: refused exactly when less than 1 was
\* read, decrement 1 otherwise
C30_Checked ==
  \A r \in Req : \A i \in 1..Len(log[r]) :
    (items[r][i].qty = <<>> /\ log[r][i].out \in {"dec", "short"}) =>
      /\ log[r][i].out = "short" <=> log[r][i].avail[1] < 1
      /\ log[r][i].out = "dec" => log[r][i].dec = 1
      /\ (i = Len(log[r]) /\ log[r][i].out = "short")
           => resp[r].status = 409 /\ resp[r].availableQty = log[r][i].avail

\* C30: an item that specifies no qty asks for 1: it is refused when less than 1 is
\* available and otherwise takes exactly 1 from the product's stock, or from the qty
\* of the size it names.
C30_MissingQtyIsOne ==
  /\ []C30_Checked
  /\ [][\A r \in Req :
         (/\ pc[r] = "save" /\ pc'[r] \notin {"save", "done"}
          /\ items[r][Len(items[r])].qty = <<>>)
         => LET e == log[r][Len(log[r])] IN
            /\ Stored(products', e.pid, e.idx) = Stored(products, e.pid, e.idx) - 1
            /\ Stored(products, e.pid, e.idx) >= 1
            /\ \A s \in Slots \ {<<e.pid, e.idx>>} :
                 Stored(products', s[1], s[2]) = Stored(products, s[1], s[2])
       ]_vars

\* C30 witness: an item without qty naming size S of the per-size product took 1 of
\* the 2 units of that size
C30_Witness ==
  \E r \in Req : \E i \in 1..Len(log[r]) :
    /\ items[r][i] = Item("P2", "S", <<>>)
    /\ log[r][i].out = "dec" /\ log[r][i].saved /\ log[r][i].dec = 1
    /\ Stored(stock0, "P2", 1) = 2 /\ Stored(products, "P2", 1) = 1

\* ---- C31 ----
\* the credentials resolve in every copy: both sources hold the same pair, and
\* no lookup of the settings record failed
C31_CredentialsResolve ==
  /\ config.envKeyId # "" /\ config.envKeySecret # ""
  /\ config.dbKeyId = config.envKeyId /\ config.dbKeySecret = config.envKeySecret
  /\ \A c \in Copies : ~side[c].fault

\* C31: served side by side with credentials that resolve in all of them, part_000
\* and part_001 answer every create-order, verify and manual request with the status
\* code payment.js answers with, and enter the shared inventory loop (the only code
\* that changes product quantities and Order Records) exactly when payment.js does.
C31_CopiesAgree ==
  (Started("r1") /\ C31_CredentialsResolve) =>
    \A c \in Copies : side[c].status = side["payment"].status

====
